---------------------------- MODULE Spec2Model ----------------------------
(***************************************************************************)
(* A model of ContinualModel (models/utils/continual_model.py): the        *)
(* constructor, optimizer selection, buffer attachment, the task-boundary  *)
(* meta steps and the meta observation step with its label filter and its  *)
(* wandb auto-logging.                                                      *)
(*                                                                         *)
(* Python exceptions are recorded by name in `raised`; an attribute that   *)
(* has not been assigned yet holds None.  A tensor is modelled by the      *)
(* sequence of its entries along the first (batch) dimension, a str that   *)
(* the code inspects character by character by the tuple of its            *)
(* characters.                                                             *)
(***************************************************************************)
EXTENDS Integers, Sequences, FiniteSets, TLC

(***************************************************************************)
(* Bounds of the model.                                                    *)
(***************************************************************************)
MaxTasks == 2      \* datasets have 1..MaxTasks tasks
MaxCpt == 2        \* a task introduces 1..MaxCpt classes
Overrun == 1       \* meta_end_task may be called up to N_TASKS + Overrun times
MaxBatch == 3      \* a batch holds 0..MaxBatch examples
MaxBuf == 2        \* a replay buffer stores 1..MaxBuf examples

None == "None"

(***************************************************************************)
(* str.lower() and str.startswith() on tuples of characters.               *)
(***************************************************************************)
LowerOf ==
    ("A" :> "a") @@ ("B" :> "b") @@ ("C" :> "c") @@ ("D" :> "d") @@
    ("E" :> "e") @@ ("F" :> "f") @@ ("G" :> "g") @@ ("H" :> "h") @@
    ("I" :> "i") @@ ("J" :> "j") @@ ("K" :> "k") @@ ("L" :> "l") @@
    ("M" :> "m") @@ ("N" :> "n") @@ ("O" :> "o") @@ ("P" :> "p") @@
    ("Q" :> "q") @@ ("R" :> "r") @@ ("S" :> "s") @@ ("T" :> "t") @@
    ("U" :> "u") @@ ("V" :> "v") @@ ("W" :> "w") @@ ("X" :> "x") @@
    ("Y" :> "y") @@ ("Z" :> "z")

lower(s) ==
    [i \in 1..Len(s) |-> IF s[i] \in DOMAIN LowerOf THEN LowerOf[s[i]] ELSE s[i]]

startswith(s, prefix) ==
    /\ Len(s) >= Len(prefix)
    /\ SubSeq(s, 1, Len(prefix)) = prefix

(***************************************************************************)
(* torch.optim as get_optimizer sees it: dir(optim) lists every attribute  *)
(* of the module, the optimizer classes and the rest (sub-modules, dunder  *)
(* attributes).  Only a class can be called with (params, lr=...,          *)
(* weight_decay=..., momentum=...).  No two listed names agree up to case. *)
(***************************************************************************)
str_SGD == <<"S", "G", "D">>
str_RMSprop == <<"R", "M", "S", "p", "r", "o", "p">>
str_lr_scheduler == <<"l", "r", "_", "s", "c", "h", "e", "d", "u", "l", "e", "r">>
str___name__ == <<"_", "_", "n", "a", "m", "e", "_", "_">>

OptimizerClasses == {str_SGD, str_RMSprop}

dir_optim == OptimizerClasses \cup {str_lr_scheduler, str___name__}

\* args.optimizer as the command line may give it
OptimizerArgs ==
    { str_SGD, <<"s", "g", "d">>, <<"S", "g", "d">>,
      <<"r", "m", "s", "p", "r", "o", "p">>,
      <<"a", "d", "a", "m">>, <<"s", "g">>,
      str_lr_scheduler, str___name__ }

VARIABLES
    \* what the constructor is given: the class attributes of the concrete
    \* strategy, the arguments, the dataset get_dataset returns, sys.modules
    NAME, COMPATIBILITY, backbone, args, dataset, transform_ok, sys_modules,
    \* the object
    phase, net, opt, weak_transform, normalization_transform,
    N_CLASSES, N_TASKS, cpt, current_task,
    n_classes_current_task, n_seen_classes, n_remaining_classes, n_past_classes,
    buffer,
    \* the attributes given to the object after __init__ (reading another
    \* raises AttributeError)
    attrs,
    \* the last call: its name, its argument, self.buffer when it began, the
    \* exception it raised, its return value, what was printed, what the
    \* strategy hook saw of the object, how observe was called, and what was
    \* passed to wandb.log
    last_op, last_in, buffer_before, raised, ret, stdout, hook_saw, observed,
    wandb_log,
    \* history: the number of meta_end_task calls, in all and since the last
    \* meta_begin_task that completed
    n_end_calls, ends_since_begin

cfgvars == <<NAME, COMPATIBILITY, backbone, args, dataset, transform_ok, sys_modules>>
ctorvars == <<net, opt, weak_transform, normalization_transform, N_CLASSES, N_TASKS, cpt>>
progressvars ==
    <<n_classes_current_task, n_seen_classes, n_remaining_classes, n_past_classes>>
histvars == <<n_end_calls, ends_since_begin>>
vars ==
    <<cfgvars, phase, ctorvars, current_task, progressvars, buffer, attrs,
      last_op, last_in, buffer_before, raised, ret, stdout, hook_saw, observed,
      wandb_log, histvars>>


(***************************************************************************)
(* The configurations a run starts from.                                   *)
(***************************************************************************)
Sum(s) == LET RECURSIVE go(_)
              go(k) == IF k = 0 THEN 0 ELSE s[k] + go(k - 1)
          IN go(Len(s))

\* dataset.N_CLASSES_PER_TASK is an int or a list of ints, one per task
IntCpt(c) == [isint |-> TRUE, int |-> c, list |-> <<>>]
ListCpt(l) == [isint |-> FALSE, int |-> 0, list |-> l]

Datasets ==
    { [N_CLASSES |-> c * t, N_TASKS |-> t, SETTING |-> "class-il",
       N_CLASSES_PER_TASK |-> IntCpt(c)] : c \in 1..MaxCpt, t \in 1..MaxTasks }
    \cup
    UNION { { [N_CLASSES |-> Sum(l), N_TASKS |-> t, SETTING |-> "class-il",
               N_CLASSES_PER_TASK |-> ListCpt(l)] : l \in [1..t -> 1..MaxCpt] }
            : t \in 1..MaxTasks }

\* label_perc 0 stands for any fraction of visible labels below 1
Namespaces ==
    [optimizer : OptimizerArgs, nowand : BOOLEAN, debug_mode : BOOLEAN,
     buffer_size : 1..MaxBuf, label_perc : {0, 1}]

InitObject ==
    /\ phase = "new"
    /\ net = None /\ opt = None
    /\ weak_transform = None /\ normalization_transform = None
    /\ N_CLASSES = None /\ N_TASKS = None /\ cpt = None
    /\ current_task = None
    /\ n_classes_current_task = None /\ n_seen_classes = None
    /\ n_remaining_classes = None /\ n_past_classes = None
    /\ buffer = None
    /\ attrs = {}
    /\ last_op = None /\ last_in = None /\ buffer_before = None
    /\ raised = None /\ ret = None
    /\ stdout = {} /\ hook_saw = None /\ observed = None /\ wandb_log = <<>>
    /\ n_end_calls = 0 /\ ends_since_begin = 0

\* the task lifecycle: every dataset, one working strategy
Init ==
    /\ NAME = "er"
    /\ COMPATIBILITY \in {{"class-il", "task-il"}, {"class-il", "cssl"}}
    /\ backbone = "resnet18"
    /\ args \in {a \in Namespaces :
                   /\ a.optimizer = <<"s", "g", "d">> /\ a.nowand
                   /\ ~a.debug_mode /\ a.label_perc = 1}
    /\ dataset \in Datasets
    /\ transform_ok = TRUE
    /\ sys_modules = {"torch"}
    /\ InitObject

\* construction: every strategy descriptor, backbone, optimizer name
InitConstruct ==
    /\ NAME \in {"", "er"}
    /\ COMPATIBILITY \in {{}, {"class-il", "task-il"}, {"class-il", "cssl"}}
    /\ backbone \in {None, "resnet18"}
    /\ args \in {a \in Namespaces :
                   a.nowand /\ ~a.debug_mode /\ a.buffer_size = 1}
    /\ dataset \in {d \in Datasets : d.N_TASKS = 1 /\ d.N_CLASSES = 1}
    /\ transform_ok \in BOOLEAN
    /\ sys_modules = {"torch"}
    /\ InitObject

\* observation: every logging configuration, with and without 'cssl'
InitObserve ==
    /\ NAME = "er"
    /\ COMPATIBILITY \in {{"class-il", "task-il"}, {"class-il", "cssl"}}
    /\ backbone = "resnet18"
    /\ args \in {a \in Namespaces :
                   /\ a.optimizer = <<"s", "g", "d">> /\ a.buffer_size = 1
                   /\ a.label_perc = 1}
    /\ dataset \in {d \in Datasets : d.N_TASKS = 1 /\ d.N_CLASSES = 1
                                      /\ d.N_CLASSES_PER_TASK.isint}
    /\ transform_ok = TRUE
    /\ sys_modules \in {{"torch"}, {"torch", "wandb"}}
    /\ InitObject

(***************************************************************************)
(* get_optimizer (lines 76-84).  supported_optims maps the lower-cased     *)
(* name of every attribute of torch.optim to the attribute's name; the     *)
(* attribute found for the lower-cased request is called.                  *)
(***************************************************************************)
supported_optims == [l \in {lower(n) : n \in dir_optim} |->
                        CHOOSE n \in dir_optim : lower(n) = l]

Returned(v) == [raised |-> None, value |-> v]
Raised(e) == [raised |-> e, value |-> None]

get_optimizer(a) ==
    IF lower(a.optimizer) \in DOMAIN supported_optims
    THEN LET cls == supported_optims[lower(a.optimizer)]
         IN IF cls \in OptimizerClasses
            THEN Returned(cls)
            ELSE Raised("TypeError")   \* the attribute is not an optimizer class
    ELSE Raised("ValueError")

(***************************************************************************)
(* __init__ (lines 32-66).  An exception leaves the assignments made       *)
(* before it and no object to call.                                        *)
(***************************************************************************)
\* a faulty variant: 'and' for 'or'
descriptor_missing_both(name, compat) == name = "" /\ compat = {}

descriptor_missing(name, compat) == name = "" \/ compat = {}

Construct ==
    /\ phase = "new"
    /\ net' = backbone
    /\ N_CLASSES' = dataset.N_CLASSES
    /\ N_TASKS' = dataset.N_TASKS
    /\ cpt' = dataset.N_CLASSES_PER_TASK
    /\ current_task' = 0
    /\ weak_transform' = IF transform_ok THEN "kornia" ELSE None
    /\ normalization_transform' = IF transform_ok THEN "kornia" ELSE None
    /\ LET made == IF backbone # None THEN get_optimizer(args) ELSE Returned(None)
           warn1 == IF transform_ok THEN {} ELSE {"could not initialize kornia transforms"}
           warn2 == IF backbone # None THEN {} ELSE {"no default model for this dataset"}
           warn3 == IF args.label_perc # 1 /\ "cssl" \notin COMPATIBILITY
                    THEN {"label_perc is not explicitly supported"} ELSE {}
       IN IF made.raised # None
          THEN /\ opt' = None
               /\ raised' = made.raised
               /\ stdout' = warn1
               /\ phase' = "failed"
          ELSE /\ opt' = made.value
               /\ IF descriptor_missing(NAME, COMPATIBILITY)
                  THEN /\ raised' = "NotImplementedError"
                       /\ stdout' = warn1 \cup warn2
                       /\ phase' = "failed"
                  ELSE /\ raised' = None
                       /\ stdout' = warn1 \cup warn2 \cup warn3
                       /\ phase' = "ready"
    /\ last_op' = "__init__" /\ last_in' = None /\ buffer_before' = buffer
    /\ ret' = None
    /\ hook_saw' = None /\ observed' = None /\ wandb_log' = <<>>
    /\ UNCHANGED <<cfgvars, progressvars, buffer, attrs, histvars>>

(***************************************************************************)
(* load_buffer (lines 68-74).                                              *)
(***************************************************************************)
Buffers == [id : {"b1", "b2"}, examples_shape0 : 1..MaxBuf]

\* a faulty variant: the assertion is compiled out
buffer_size_unchecked(b, a) == TRUE

buffer_size_matches(b, a) == b.examples_shape0 = a.buffer_size

LoadBuffer(b) ==
    /\ phase = "ready"
    /\ IF buffer_size_matches(b, args)
       THEN raised' = None /\ buffer' = b /\ attrs' = attrs \cup {"buffer"}
       ELSE raised' = "AssertionError" /\ UNCHANGED <<buffer, attrs>>
    /\ last_op' = "load_buffer" /\ last_in' = b /\ buffer_before' = buffer
    /\ ret' = None
    /\ stdout' = {} /\ hook_saw' = None /\ observed' = None /\ wandb_log' = <<>>
    /\ UNCHANGED <<cfgvars, phase, ctorvars, current_task, progressvars, histvars>>

(***************************************************************************)
(* meta_begin_task (lines 127-132) and meta_end_task (lines 134-136).      *)
(* begin_task and end_task are the strategy's hooks: hook_saw is the       *)
(* object as the hook finds it.                                            *)
(***************************************************************************)
Min(a, b) == IF a <= b THEN a ELSE b

\* l[:k] for k >= 0
slice(l, k) == SubSeq(l, 1, Min(k, Len(l)))

\* a faulty variant: the first task's class count, whatever the task
n_classes_current_task_first(c, t) == IF c.isint THEN c.int ELSE c.list[1]

n_classes_current_task_of(c, t) == IF c.isint THEN c.int ELSE c.list[t + 1]

\* a faulty variant: off by one
n_seen_classes_off(c, t) ==
    IF c.isint THEN c.int * t ELSE Sum(slice(c.list, t + 1))

n_seen_classes_of(c, t) ==
    IF c.isint THEN c.int * (t + 1) ELSE Sum(slice(c.list, t + 1))

\* a faulty variant: the prefix includes the current task
n_past_classes_incl(c, t) ==
    IF c.isint THEN c.int * t ELSE Sum(slice(c.list, t + 1))

n_past_classes_of(c, t) ==
    IF c.isint THEN c.int * t ELSE Sum(slice(c.list, t))

ProgressAttrs ==
    {"n_classes_current_task", "n_seen_classes", "n_remaining_classes",
     "n_past_classes"}

SelfAsSeenBy(hook, ct, ncur, nseen, nrem, npast) ==
    [hook |-> hook, current_task |-> ct, n_classes_current_task |-> ncur,
     n_seen_classes |-> nseen, n_remaining_classes |-> nrem,
     n_past_classes |-> npast]

begin_task ==
    hook_saw' = SelfAsSeenBy("begin_task", current_task', n_classes_current_task',
                             n_seen_classes', n_remaining_classes', n_past_classes')

MetaBeginTask ==
    /\ phase = "ready"
    /\ UNCHANGED <<cfgvars, phase, ctorvars, current_task, buffer, n_end_calls>>
    /\ IF ~cpt.isint /\ current_task >= Len(cpt.list)
       THEN \* line 128 raises before anything is assigned
            /\ raised' = "IndexError"
            /\ hook_saw' = None
            /\ UNCHANGED <<progressvars, attrs, ends_since_begin>>
       ELSE /\ n_classes_current_task' = n_classes_current_task_of(cpt, current_task)
            /\ n_seen_classes' = n_seen_classes_of(cpt, current_task)
            /\ n_remaining_classes' = N_CLASSES - n_seen_classes'
            /\ n_past_classes' = n_past_classes_of(cpt, current_task)
            /\ attrs' = attrs \cup ProgressAttrs
            /\ begin_task
            /\ raised' = None
            /\ ends_since_begin' = 0
    /\ last_op' = "meta_begin_task" /\ last_in' = None /\ buffer_before' = buffer
    /\ ret' = None
    /\ stdout' = {} /\ observed' = None /\ wandb_log' = <<>>

\* a faulty variant: the hook runs before the task index advances
end_task_first ==
    hook_saw' = SelfAsSeenBy("end_task", current_task, n_classes_current_task,
                             n_seen_classes, n_remaining_classes, n_past_classes)

end_task ==
    hook_saw' = SelfAsSeenBy("end_task", current_task', n_classes_current_task',
                             n_seen_classes', n_remaining_classes', n_past_classes')

MetaEndTask ==
    /\ phase = "ready"
    /\ current_task < N_TASKS + Overrun
    /\ current_task' = current_task + 1
    /\ UNCHANGED progressvars
    /\ end_task
    /\ n_end_calls' = n_end_calls + 1
    /\ ends_since_begin' = ends_since_begin + 1
    /\ last_op' = "meta_end_task" /\ last_in' = None /\ buffer_before' = buffer
    /\ raised' = None /\ ret' = None
    /\ stdout' = {} /\ observed' = None /\ wandb_log' = <<>>
    /\ UNCHANGED <<cfgvars, phase, ctorvars, buffer, attrs>>

(***************************************************************************)
(* meta_observe (lines 115-125) and autolog_wandb (lines 149-158).         *)
(*                                                                         *)
(* A call gives the positional arguments, the keyword arguments, and what  *)
(* the strategy's observe does when it runs: the local variables it leaves *)
(* and the loss it returns.                                                *)
(***************************************************************************)
Tensor(d) == [kind |-> "Tensor", data |-> d]
PyInt(n) == [kind |-> "int", data |-> <<n>>]

str_loss == <<"l", "o", "s", "s">>
str__wandb_ == <<"_", "w", "a", "n", "d", "b", "_">>

\* values of locals: a zero-dimensional tensor, a larger tensor, a float
Local(name, kind, v) == [name |-> name, kind |-> kind, v |-> v]

\* what observe may do: the locals it leaves and the loss it returns
Strategies ==
    { [locals |-> {}, loss |-> 1],
      [locals |-> { Local(str_loss, "Tensor0", 2),
                    Local(<<"o", "u", "t">>, "TensorN", 5) },
       loss |-> 2],
      [locals |-> { Local(str_loss \o <<"_", "k", "d">>, "float", 3),
                    Local(str__wandb_ \o <<"a", "c", "c">>, "Tensor0", 4),
                    Local(<<"w", "a", "n", "d", "b">>, "float", 6),
                    Local(<<"l", "o", "s">>, "Tensor0", 7) },
       loss |-> 3] }

\* (inputs, labels, not_aug_inputs) of n examples
Batch(n, labels) ==
    <<Tensor([i \in 1..n |-> i]), Tensor(labels), Tensor([i \in 1..n |-> 10 + i])>>

\* what follows the batch: positional arguments (the logits of the batch, a
\* tensor of another length, the epoch) and keyword arguments (the epoch,
\* the logits of the batch)
Extras(n) ==
    LET logits == Tensor([i \in 1..n |-> 20 + i])
        other == Tensor([i \in 1..(n + 1) |-> 40 + i])
        epoch == PyInt(1)
    IN { [args |-> <<>>, kwargs |-> {}],
         [args |-> <<logits>>, kwargs |-> {[name |-> "epoch", value |-> epoch]}],
         [args |-> <<other>>, kwargs |-> {}],
         [args |-> <<epoch>>, kwargs |-> {}],
         [args |-> <<>>, kwargs |-> {[name |-> "logits", value |-> logits]}] }

ObserveCalls ==
    UNION { { [args |-> Batch(n, l) \o x.args, kwargs |-> x.kwargs,
               locals |-> st.locals, loss |-> st.loss]
              : l \in [1..n -> {-1, 0}], x \in Extras(n), st \in Strategies }
            : n \in 0..MaxBatch }

\* the calls made while the task lifecycle is explored
LifecycleCalls ==
    { c \in ObserveCalls :
        /\ Len(c.args) = 3 /\ Len(c.args[1].data) = 1
        /\ c.kwargs = {} /\ c.locals = {} /\ c.loss = 1 }

\* arg[labeled_mask]: the entries at the positions where the mask is True
index_mask(d, mask) ==
    LET RECURSIVE go(_)
        go(k) == IF k = 0 THEN <<>>
                 ELSE IF mask[k] THEN Append(go(k - 1), d[k]) ELSE go(k - 1)
    IN go(Len(d))

\* a faulty variant: unlabeled data is dropped whatever the strategy supports
drops_unlabeled_always(compat) == TRUE

drops_unlabeled(compat) == "cssl" \notin compat

filter_args(a) ==
    LET labeled_mask == [i \in 1..Len(a[2].data) |-> a[2].data[i] # -1]
    IN [i \in 1..Len(a) |->
          IF a[i].kind = "Tensor" /\ Len(a[i].data) = Len(a[1].data)
          THEN Tensor(index_mask(a[i].data, labeled_mask))
          ELSE a[i]]

item(l) == IF l.kind = "Tensor0" THEN [l EXCEPT !.kind = "float"] ELSE l

\* a faulty variant: debug_mode is not consulted
autolog_wandb_in_debug(a, locals) ==
    IF ~a.nowand
    THEN << {item(l) : l \in {x \in locals : \/ startswith(x.name, str__wandb_)
                                             \/ startswith(x.name, str_loss)}} >>
    ELSE <<>>

\* the calls of wandb.log that autolog_wandb makes
autolog_wandb(a, locals) ==
    IF ~a.nowand /\ ~a.debug_mode
    THEN << {item(l) : l \in {x \in locals : \/ startswith(x.name, str__wandb_)
                                             \/ startswith(x.name, str_loss)}} >>
    ELSE <<>>

MetaObserve(call) ==
    /\ phase = "ready"
    /\ LET a == IF drops_unlabeled(COMPATIBILITY)
                THEN filter_args(call.args) ELSE call.args
       IN /\ observed' = [args |-> a, kwargs |-> call.kwargs]
          /\ ret' = call.loss
          /\ IF "wandb" \in sys_modules /\ ~args.nowand
             THEN wandb_log' = autolog_wandb(args, call.locals)
             ELSE wandb_log' = <<>>
    /\ last_op' = "meta_observe" /\ last_in' = call /\ buffer_before' = buffer
    /\ raised' = None
    /\ stdout' = {} /\ hook_saw' = None
    /\ UNCHANGED <<cfgvars, phase, ctorvars, current_task, progressvars, buffer,
                   attrs, histvars>>

(***************************************************************************)
(* The specifications.                                                     *)
(***************************************************************************)
Next ==
    \/ Construct
    \/ MetaBeginTask
    \/ MetaEndTask
    \/ \E c \in LifecycleCalls : MetaObserve(c)
    \/ \E b \in Buffers : LoadBuffer(b)

Spec == Init /\ [][Next]_vars

NextConstruct == Construct

SpecConstruct == InitConstruct /\ [][NextConstruct]_vars

NextObserve ==
    \/ Construct
    \/ \E c \in ObserveCalls : MetaObserve(c)

SpecObserve == InitObserve /\ [][NextObserve]_vars

(***************************************************************************)
(* The claims.  Sums and selections are stated here over index sets, apart *)
(* from the operators the actions use.                                     *)
(***************************************************************************)
RECURSIVE SumOver(_, _)
SumOver(l, I) ==
    IF I = {} THEN 0
    ELSE LET i == CHOOSE x \in I : TRUE IN l[i] + SumOver(l, I \ {i})

BeganTask == last_op = "meta_begin_task" /\ raised = None

\* C1: with a scalar classes-per-task C, right after meta_begin_task for task
\* t (t meta_end_task calls came before, t < N_TASKS), n_seen_classes is
\* C * (t + 1) and n_past_classes is C * t.
C1_ScalarProgress ==
    (BeganTask /\ cpt.isint /\ n_end_calls < N_TASKS) =>
        /\ n_seen_classes = cpt.int * (n_end_calls + 1)
        /\ n_past_classes = cpt.int * n_end_calls

C1_Witness ==
    /\ BeganTask /\ cpt.isint /\ cpt.int = 2
    /\ n_end_calls = 1 /\ N_TASKS = 2 /\ n_seen_classes = 4

\* C2: with a per-task list cpt, right after meta_begin_task for task t
\* (t < N_TASKS), n_seen_classes is cpt[0] + ... + cpt[t], n_past_classes is
\* cpt[0] + ... + cpt[t-1] and n_classes_current_task is cpt[t].
C2_ListProgress ==
    (BeganTask /\ ~cpt.isint /\ n_end_calls < N_TASKS) =>
        /\ n_seen_classes = SumOver(cpt.list, 1..(n_end_calls + 1))
        /\ n_past_classes = SumOver(cpt.list, 1..n_end_calls)
        /\ n_classes_current_task = cpt.list[n_end_calls + 1]

C2_Witness ==
    /\ BeganTask /\ ~cpt.isint /\ cpt.list = <<1, 2>>
    /\ n_end_calls = 1 /\ n_seen_classes = 3 /\ n_past_classes = 1

\* the positions of a batch whose label is not -1, and the k-th of them
Labeled(labels) == {i \in 1..Len(labels) : labels[i] # -1}
KthLabeled(labels, k) ==
    CHOOSE i \in Labeled(labels) : Cardinality({j \in Labeled(labels) : j <= i}) = k

\* `after` is `before` without the entries at the unlabeled positions, the
\* others in their order
Stripped(before, after, labels) ==
    /\ after.kind = "Tensor"
    /\ Len(after.data) = Cardinality(Labeled(labels))
    /\ \A k \in 1..Len(after.data) : after.data[k] = before.data[KthLabeled(labels, k)]

BatchAligned(v, call) ==
    v.kind = "Tensor" /\ Len(v.data) = Len(call.args[1].data)

PassedOn(before, after, call) ==
    IF BatchAligned(before, call)
    THEN Stripped(before, after, call.args[2].data)
    ELSE after = before

Observed == last_op = "meta_observe" /\ raised = None

\* C3: without 'cssl' in COMPATIBILITY, observe receives every batch-aligned
\* argument, positional or keyword, without the entries whose label is -1 (the
\* same positions in each, the rest in order) and every other argument
\* unchanged.
C3_EveryArgumentFiltered ==
    (Observed /\ "cssl" \notin COMPATIBILITY) =>
        /\ Len(observed.args) = Len(last_in.args)
        /\ \A i \in 1..Len(last_in.args) :
              PassedOn(last_in.args[i], observed.args[i], last_in)
        /\ {kw.name : kw \in observed.kwargs} = {kw.name : kw \in last_in.kwargs}
        /\ \A kw \in last_in.kwargs : \E kw2 \in observed.kwargs :
              kw2.name = kw.name /\ PassedOn(kw.value, kw2.value, last_in)

\* The positional part of C3, which holds: every positional argument is
\* passed on filtered or unchanged, and the keyword arguments as they came.
PositionalArgumentsFiltered ==
    (Observed /\ "cssl" \notin COMPATIBILITY) =>
        /\ Len(observed.args) = Len(last_in.args)
        /\ \A i \in 1..Len(last_in.args) :
              PassedOn(last_in.args[i], observed.args[i], last_in)
        /\ observed.kwargs = last_in.kwargs

\* C4: with 'cssl' in COMPATIBILITY, observe receives every argument
\* unchanged, whatever labels are -1.
C4_CsslUnfiltered ==
    (Observed /\ "cssl" \in COMPATIBILITY) =>
        /\ observed.args = last_in.args
        /\ observed.kwargs = last_in.kwargs

C4_Witness ==
    /\ Observed /\ "cssl" \in COMPATIBILITY
    /\ last_in.args[2].data = <<0, -1, 0>>
    /\ Len(last_in.args) = 4
    /\ observed.args[1].data = <<1, 2, 3>>

\* C5: a meta_observe call made with nowand set, without the wandb module
\* loaded or in debug_mode calls wandb.log not once, whatever locals observe
\* leaves; observe runs and its return value is returned.
C5_NoLogWhenDisabled ==
    (Observed /\ (args.nowand \/ "wandb" \notin sys_modules \/ args.debug_mode)) =>
        /\ wandb_log = <<>>
        /\ Len(observed.args) = Len(last_in.args)
        /\ ret = last_in.loss

C5_Witness ==
    /\ Observed /\ args.debug_mode /\ ~args.nowand /\ "wandb" \in sys_modules
    /\ \E l \in last_in.locals : l.name = str_loss
    /\ ret = 2

EmptyDescriptor == NAME = "" \/ COMPATIBILITY = {}

\* the request names, up to case, an optimizer class of torch.optim
NamesOptimizer(request) ==
    \E n \in OptimizerClasses : lower(n) = lower(request)

Constructed == last_op = "__init__"

\* C6 as claimed: construction with an empty NAME or an empty COMPATIBILITY
\* raises NotImplementedError, whatever the other inputs.
C6_AlwaysNotImplemented ==
    (Constructed /\ EmptyDescriptor) =>
        phase = "failed" /\ raised = "NotImplementedError"

\* C6 as amended: construction with an empty NAME or an empty COMPATIBILITY
\* fails, whatever the transform derivation does: with NotImplementedError
\* when there is no backbone or the optimizer is selected, and with the error
\* of get_optimizer, raised first, when a backbone is given and the optimizer
\* is not selected.
C6_FailsDescriptorOrOptimizer ==
    (Constructed /\ EmptyDescriptor) =>
        /\ phase = "failed"
        /\ IF backbone = None \/ NamesOptimizer(args.optimizer)
           THEN raised = "NotImplementedError"
           ELSE raised \in {"ValueError", "TypeError"}

C6_Witness ==
    /\ Constructed /\ NAME = "" /\ COMPATIBILITY # {}
    /\ backbone # None /\ ~transform_ok
    /\ raised = "NotImplementedError" /\ phase = "failed"

\* C7: with a backbone, an optimizer is selected exactly when args.optimizer
\* names, up to case, an optimizer class of torch.optim; otherwise
\* construction raises ValueError.
C7_OptimizerOrValueError ==
    (Constructed /\ backbone # None) =>
        IF NamesOptimizer(args.optimizer)
        THEN opt # None /\ lower(opt) = lower(args.optimizer)
             /\ raised # "ValueError"
        ELSE opt = None /\ raised = "ValueError"

\* C8: load_buffer raises AssertionError and leaves self.buffer as it was when
\* the buffer's example count differs from args.buffer_size; otherwise it
\* returns and self.buffer is the buffer given.
C8_LoadBuffer ==
    last_op = "load_buffer" =>
        IF last_in.examples_shape0 # args.buffer_size
        THEN /\ raised = "AssertionError"
             /\ buffer = buffer_before
        ELSE /\ raised = None
             /\ "buffer" \in attrs
             /\ buffer = last_in

C8_Witness ==
    /\ last_op = "load_buffer" /\ raised = "AssertionError"
    /\ "buffer" \in attrs /\ buffer.examples_shape0 = args.buffer_size
    /\ last_in.examples_shape0 # args.buffer_size

\* the progress fields that cpt gives for task t (none when a list has no
\* entry for t)
HasTask(t) == cpt.isint \/ t < Len(cpt.list)
ProgressOf(t) ==
    IF cpt.isint
    THEN [cur |-> cpt.int, seen |-> cpt.int * (t + 1), past |-> cpt.int * t]
    ELSE [cur |-> cpt.list[t + 1], seen |-> SumOver(cpt.list, 1..(t + 1)),
          past |-> SumOver(cpt.list, 1..t)]

\* C9: the begin_task hook finds the four progress fields recomputed for the
\* task being started; the end_task hook of task t finds current_task = t + 1,
\* advanced by exactly one.
C9_UpdateBeforeHook ==
    /\ BeganTask =>
          /\ hook_saw.hook = "begin_task"
          /\ hook_saw.current_task = current_task
          /\ hook_saw.n_classes_current_task = ProgressOf(current_task).cur
          /\ hook_saw.n_seen_classes = ProgressOf(current_task).seen
          /\ hook_saw.n_past_classes = ProgressOf(current_task).past
          /\ hook_saw.n_remaining_classes = N_CLASSES - ProgressOf(current_task).seen
    /\ last_op = "meta_end_task" =>
          /\ hook_saw.hook = "end_task"
          /\ hook_saw.current_task = n_end_calls
          /\ current_task = n_end_calls

C9_Witness ==
    /\ last_op = "meta_end_task" /\ n_end_calls = 2
    /\ hook_saw.current_task = 2 /\ "n_seen_classes" \in attrs

ProgressFor(t) ==
    /\ HasTask(t)
    /\ n_classes_current_task = ProgressOf(t).cur
    /\ n_seen_classes = ProgressOf(t).seen
    /\ n_past_classes = ProgressOf(t).past
    /\ n_remaining_classes = N_CLASSES - ProgressOf(t).seen

ProgressSums ==
    /\ n_seen_classes = n_past_classes + n_classes_current_task
    /\ n_seen_classes + n_remaining_classes = N_CLASSES

\* C10 as claimed: once meta_begin_task has completed, in every state up to
\* the next meta_begin_task the progress fields are those cpt gives for the
\* stored current_task, and the two sums hold.
C10_ConsistentWithCurrentTask ==
    ProgressAttrs \subseteq attrs =>
        ProgressFor(current_task) /\ ProgressSums

\* C10 as amended: once meta_begin_task has completed, in every state up to
\* the next meta_begin_task the progress fields are those cpt gives for the
\* task index meta_begin_task ran with: the stored current_task until
\* meta_end_task, and current_task less the number of meta_end_task calls
\* made since (one, in a regular run) after it; the two sums hold throughout.
C10_ConsistentWithBegunTask ==
    ProgressAttrs \subseteq attrs =>
        /\ ProgressFor(current_task - ends_since_begin)
        /\ ProgressSums

C10_Witness ==
    /\ last_op = "meta_observe" /\ ends_since_begin = 1 /\ current_task = 2
    /\ ~cpt.isint /\ cpt.list = <<1, 2>> /\ n_seen_classes = 3

=============================================================================
